---- MODULE Spec2Model ----
(***************************************************************************)
(* Multi-backend fan-out and synthesis of the PR reviewer:                 *)
(*   App.on_review                      (src/pr_reviewer/ui.py)            *)
(*   FileHistoryTab.on_generate_summary (src/pr_reviewer/file_history_tab.py) *)
(*   synthesize_file_history_with_base  (src/pr_reviewer/file_history_tab.py) *)
(* Backends are numbered by their position in MODEL_REGISTRY, which is the *)
(* iteration order of App.model_vars.                                      *)
(***************************************************************************)
EXTENDS Naturals, Sequences, FiniteSets, TLC

\* ------------------------------------------------------------------ bounds
\* Number of registry entries offered as check boxes in the small model.
NumBackends == 3

\* Longest text handed to chunk_text in the small model, in characters, and
\* the largest character budget tried with it.
MaxTextLen == 5

MaxBudget == 4

\* Most lines of a diff text in the small model.
MaxDiffLines == 3

\* Number of backends in the runs without a schedule that are checked for
\* termination.
LiveBackends == 2

\* ------------------------------------------------------- program constants
\* ThreadPoolExecutor(max_workers=min(len(selected_models), 8))
ConcurrencyCap == 8

\* {esc(err)[:400]} in App._wrap_full_report.
FailedMsgLimit == 400

\* def chunk_text(s: str, max_chars: int = 12000)
DefaultMaxChars == 12000

\* def _has_generated_markers(block_text, markers, head_lines: int = 120)
HeadLines == 120

\* The fixed base model handed to synthesize_file_history_with_base.
BaseModel == "llama-3-3-70b-instruct"

\* The sources message sent when no backend result is truthy.
NoSourcesMarker == "No sources."

\* Python's None as a backend return value (message.content may be null).
NoneVal == "<None>"

\* ------------------------------------------------------------ environment
\* Texts a backend call may return, per handler. _single_model_file_history_summary
\* returns completion.choices[0].message.content, which may be None.
Outputs(h) == IF h = "summary" THEN {NoneVal, "", "A", "B"} ELSE {"", "A", "B"}

\* A text whose length matters is a sequence of runs [c, n]: n times the
\* character c.
Chars(cs) == [i \in DOMAIN cs |-> [c |-> cs[i], n |-> 1]]

\* str(e) of an exception raised by a backend call: a short message with
\* HTML-special characters, and a message of 401 characters with one.
ShortMsg == Chars(<<"E", "<", "1", ">">>)

LongMsg == <<[c |-> "x", n |-> 399], [c |-> "<", n |-> 1], [c |-> "x", n |-> 1]>>

Messages == {ShortMsg, LongMsg}

NotDone == [kind |-> "none", val |-> ""]

Outcomes(h) ==
    {[kind |-> "ok", val |-> v] : v \in Outputs(h)} \cup
    {[kind |-> "exc", val |-> m] : m \in Messages}

\* Number of backends selected when the pool's cap is exercised.
CapBackends == ConcurrencyCap + 1

\* ---------------------------------------------------------------- helpers
Min(a, b) == IF a < b THEN a ELSE b

Range(s) == {s[i] : i \in 1..Len(s)}

\* bool(x) of a str-or-None value.
Truthy(v) == v \notin {"", NoneVal}

\* `res2 or ""` in App.on_review.
OrEmpty(v) == IF Truthy(v) THEN v ELSE ""

\* [mid for mid, var in self.model_vars.items() if var.get()]: the ticked
\* registry entries in registry order.
RECURSIVE CollectSelectedModels(_)
CollectSelectedModels(boxes) ==
    IF boxes = {} THEN <<>>
    ELSE LET first == CHOOSE x \in boxes : \A y \in boxes : x <= y
         IN <<first>> \o CollectSelectedModels(boxes \ {first})

\* A Python dict is a sequence of [k, v] items in insertion order.
DictKeys(d) == [i \in 1..Len(d) |-> d[i].k]

DictHas(d, k) == \E i \in 1..Len(d) : d[i].k = k

DictGet(d, k, default) ==
    IF DictHas(d, k) THEN d[CHOOSE i \in 1..Len(d) : d[i].k = k].v ELSE default

\* d[k] = v: replaces in place when k is present, appends otherwise.
DictSet(d, k, v) ==
    IF DictHas(d, k)
    THEN [i \in 1..Len(d) |-> IF d[i].k = k THEN [k |-> k, v |-> v] ELSE d[i]]
    ELSE Append(d, [k |-> k, v |-> v])

\* App._normalize_model_html: a falsy text stays empty, any other text is
\* rewritten to an HTML fragment.
NormalizeModelHtml(raw) == IF Truthy(raw) THEN <<"html", raw>> ELSE <<>>

\* Number of characters of a text.
RECURSIVE TextLen(_)
TextLen(t) ==
    IF t = <<>> THEN 0
    ELSE IF Len(t) = 1 THEN t[1].n
    ELSE LET h == Len(t) \div 2
         IN TextLen(SubSeq(t, 1, h)) + TextLen(SubSeq(t, h + 1, Len(t)))

\* "".join(ts)
RECURSIVE JoinText(_)
JoinText(ts) ==
    IF ts = <<>> THEN <<>>
    ELSE IF Len(ts) = 1 THEN ts[1]
    ELSE LET h == Len(ts) \div 2
         IN JoinText(SubSeq(ts, 1, h)) \o JoinText(SubSeq(ts, h + 1, Len(ts)))

\* html.escape of one character; quote=True also rewrites the two quotes.
EscapeChar(c, quote) ==
    CASE c = "&" -> Chars(<<"&", "a", "m", "p", ";">>)
      [] c = "<" -> Chars(<<"&", "l", "t", ";">>)
      [] c = ">" -> Chars(<<"&", "g", "t", ";">>)
      [] c = "\"" /\ quote -> Chars(<<"&", "q", "u", "o", "t", ";">>)
      [] c = "'" /\ quote -> Chars(<<"&", "#", "x", "2", "7", ";">>)
      [] OTHER -> Chars(<<c>>)

RECURSIVE RepeatText(_, _)
RepeatText(t, n) == IF n = 0 THEN <<>> ELSE t \o RepeatText(t, n - 1)

\* html.escape(s, quote): every special character becomes its entity.
RECURSIVE HtmlEscape(_, _)
HtmlEscape(t, quote) ==
    IF t = <<>> THEN <<>>
    ELSE LET r == Head(t)
             e == EscapeChar(r.c, quote)
         IN (IF Len(e) = 1 THEN <<r>> ELSE RepeatText(e, r.n))
                \o HtmlEscape(Tail(t), quote)

\* The slice t[:k].
RECURSIVE Prefix(_, _)
Prefix(t, k) ==
    IF t = <<>> \/ k = 0 THEN <<>>
    ELSE LET r == Head(t) IN
         IF r.n >= k THEN <<[c |-> r.c, n |-> k]>>
         ELSE <<r>> \o Prefix(Tail(t), k - r.n)

\* esc = _html.escape in App._wrap_full_report.
esc(t) == HtmlEscape(t, TRUE)

\* _escape_html(s) = html.escape(s or "", quote=False).
EscapeHtml(t) == HtmlEscape(t, FALSE)

VARIABLES
    handler,          \* "review" (App.on_review) or "summary" (on_generate_summary)
    ticked,           \* model_vars: the set of ticked registry entries
    parallel,         \* parallel_var
    script,           \* environment: scripted backend responses, <<>> = unconstrained
    diff,             \* on_review: the filtered diff fetch_pr_diff_filtered returned
    pc,               \* position of the handler (main thread)
    selected_models,  \* local selected_models
    taskState,        \* per backend: pending, running, done, failed
    future,           \* per backend: what run_one returned, NotDone before
    calls,            \* per backend: number of invocations of run_one
    submitted,        \* number of ex.submit calls made
    workQueue,        \* the executor's FIFO work queue
    early,            \* as_completed: futures found finished when it started
    waiterFinished,   \* as_completed: waiter.finished_futures, completion order
    seqIdx,           \* sequential loop: index of the current backend
    results,          \* dict results
    errors,           \* dict errors
    synthCalls,       \* requests sent to the base backend by the reducer
    sections,         \* on_review: the report's (model, fragment) sections
    files,            \* report files written under STORE_DIR
    index,            \* items appended to the saved index (index.json)
    errorLog,         \* on_review: error-log files written by _save_error_log
    shown,            \* message boxes shown: "error", "warning"
    writeLog,         \* the writes to results / errors: thread, map, key
    call,             \* a library function under check: its name and arguments
    ret               \* ... and what it returned

vars == <<handler, ticked, parallel, script, diff, pc, selected_models, taskState,
          future, calls, submitted, workQueue, early, waiterFinished, seqIdx,
          results, errors, synthCalls, sections, files, index, errorLog, shown,
          writeLog, call, ret>>

envVars == <<handler, ticked, parallel, script, diff>>

outVars == <<files, index, errorLog, shown>>

pureVars == <<call, ret>>

\* ------------------------------------------------------- derived notions
Selected == Range(selected_models)

Terminal(b) == taskState[b] \in {"done", "failed"}

\* A pool whose workers are not released when their call ends.
RunningSetNeverFreed == {b \in Selected : taskState[b] # "pending"}

RunningSet == {b \in Selected : taskState[b] = "running"}

NumFinished == Cardinality({b \in Selected : Terminal(b)})

\* A pool sized by the number of backends alone.
MaxWorkersUncapped == Len(selected_models)

\* A pool of a single worker thread.
MaxWorkersSingle == Min(Len(selected_models), 1)

\* ThreadPoolExecutor(max_workers=min(len(selected_models), 8))
MaxWorkers == Min(Len(selected_models), ConcurrencyCap)

\* The scripted environment (when there is a script) dictates which call
\* ends next and how.
EnvAllows(b, o) ==
    \/ script = <<>>
    \/ /\ NumFinished < Len(script)
       /\ script[NumFinished + 1] = [b |-> b, o |-> o]

\* A task that is queued again after a failure (a retry).
StateOfWithRetry(o) == IF o.kind = "exc" THEN "pending" ELSE "done"

\* The set of futures found finished by as_completed is iterated in an order
\* the runtime picks; a scripted environment fixes that order too.
EnvAllowsYield(b) ==
    \/ script = <<>>
    \/ \A c \in early : b <= c

\* The state a task reaches when run_one returns outcome o.
StateOf(o) == IF o.kind = "exc" THEN "failed" ELSE "done"

\* A loop body that forgets the empty placeholder of a failed backend.
StoreResultNoPlaceholder(h, d, b, o) ==
    IF o.kind = "exc" THEN d
    ELSE DictSet(d, b, IF h = "review" THEN OrEmpty(o.val) ELSE o.val)

\* A loop body that also reports an empty output as a failure.
StoreErrorOnEmpty(d, b, o) ==
    IF o.kind = "exc" THEN DictSet(d, b, o.val)
    ELSE IF Truthy(o.val) THEN d ELSE DictSet(d, b, "empty output")

\* The loop body shared by all four loops: record one (mname, res) pair.
\*   if isinstance(res, Exception): errors[mname] = str(res); results[mname] = ""
\*   else: results[mname] = res          (on_review: res2 or "")
StoreResult(h, d, b, o) ==
    IF o.kind = "exc" THEN DictSet(d, b, "")
    ELSE DictSet(d, b, IF h = "review" THEN OrEmpty(o.val) ELSE o.val)

StoreError(d, b, o) ==
    IF o.kind = "exc" THEN DictSet(d, b, o.val) ELSE d

\* -------------------------------------------------- diff headers, filter
\* A string is the sequence of its characters. A diff text is the sequence
\* of its lines, each closed by "\n"; the patterns below are anchored at line
\* starts and no string tried holds a line break.
HeaderPrefix ==
    <<"d", "i", "f", "f", " ", "-", "-", "g", "i", "t", " ", "a", "/">>

HeaderSep ==
    <<" ", "b", "/">>

BDir ==
    <<"b", "/">>

Unknown ==
    <<"(", "u", "n", "k", "n", "o", "w", "n", ")">>

UpperCase ==
    <<"A", "B", "C", "D", "E", "F", "G", "H", "I", "J", "K", "L", "M",
      "N", "O", "P", "Q", "R", "S", "T", "U", "V", "W", "X", "Y", "Z">>

LowerCase ==
    <<"a", "b", "c", "d", "e", "f", "g", "h", "i", "j", "k", "l", "m",
      "n", "o", "p", "q", "r", "s", "t", "u", "v", "w", "x", "y", "z">>

\* str.lower()
Lower(str) ==
    [i \in 1..Len(str) |->
        IF \E k \in 1..Len(UpperCase) : UpperCase[k] = str[i]
        THEN LowerCase[CHOOSE k \in 1..Len(UpperCase) : UpperCase[k] = str[i]]
        ELSE str[i]]

\* str.startswith(pre)
StartsWith(str, pre) ==
    Len(str) >= Len(pre) /\ SubSeq(str, 1, Len(pre)) = pre

\* needle in hay
Contains(hay, needle) ==
    \E i \in 1..(Len(hay) + 1 - Len(needle)) :
        SubSeq(hay, i, i + Len(needle) - 1) = needle

\* str.strip(): the blanks at both ends are removed.
Strip(str) ==
    LET inner == {i \in 1..Len(str) : str[i] # " "}
    IN IF inner = {} THEN <<>>
       ELSE SubSeq(str, CHOOSE i \in inner : \A j \in inner : i <= j,
                        CHOOSE i \in inner : \A j \in inner : j <= i)

\* The members of a set of numbers in increasing order.
Sorted(S) ==
    [k \in 1..Cardinality(S) |->
        CHOOSE x \in S : Cardinality({y \in S : y <= x}) = k]

\* FILE_HEADER_RE = ^diff --git a/(?P<a>.+) b/(?P<b>.+)$ on one line: the
\* places where " b/" can separate a non-empty <a> from a non-empty <b>.
HeaderSplits(ln) ==
    {k \in (Len(HeaderPrefix) + 2)..(Len(ln) - Len(HeaderSep)) :
        SubSeq(ln, k, k + Len(HeaderSep) - 1) = HeaderSep}

\* The line matches FILE_HEADER_RE.
IsHeader(ln) == StartsWith(ln, HeaderPrefix) /\ HeaderSplits(ln) # {}

\* m.group("b"): <a> is greedy, so <b> starts after the last " b/".
GroupB(ln) ==
    LET k == CHOOSE x \in HeaderSplits(ln) : \A y \in HeaderSplits(ln) : y <= x
    IN SubSeq(ln, k + Len(HeaderSep), Len(ln))

\* FILE_HEADER_RE.finditer(diff_text): the header lines, in text order.
HeaderLines(diff_text) ==
    Sorted({i \in 1..Len(diff_text) : IsHeader(diff_text[i])})

\* A list that keeps the last occurrence of each path.
UniqKeepLast(fs) ==
    LET idx == Sorted({i \in 1..Len(fs) : \A j \in (i + 1)..Len(fs) : fs[j] # fs[i]})
    IN [k \in 1..Len(idx) |-> fs[idx[k]]]

\* for f in files: if f not in seen: uniq.append(f); seen.add(f)
Uniq(fs) ==
    LET idx == Sorted({i \in 1..Len(fs) : \A j \in 1..(i - 1) : fs[j] # fs[i]})
    IN [k \in 1..Len(idx) |-> fs[idx[k]]]

\* extract_changed_files(diff_text)
extract_changed_files(diff_text) ==
    LET hs == HeaderLines(diff_text)
        fs == [k \in 1..Len(hs) |-> GroupB(diff_text[hs[k]])]
    IN Uniq(fs)

\* fnmatch.fnmatch(name, pat) on a POSIX system (no case folding): "*" is
\* any run of characters, "/" included, "?" is one character. A "[" that no
\* "]" closes is an ordinary character (fnmatch.translate escapes it), and
\* no pattern tried holds a closed bracket expression. fnmatch raises for no
\* pattern, so the except clause around it never runs.
RECURSIVE GlobMatchFrom(_, _, _, _)
GlobMatchFrom(name, pat, i, j) ==
    IF j > Len(pat) THEN i > Len(name)
    ELSE IF pat[j] = "*"
         THEN \E k \in i..(Len(name) + 1) : GlobMatchFrom(name, pat, k, j + 1)
    ELSE IF i > Len(name) THEN FALSE
    ELSE (pat[j] = "?" \/ pat[j] = name[i])
            /\ GlobMatchFrom(name, pat, i + 1, j + 1)

FnMatch(name, pat) == GlobMatchFrom(name, pat, 1, 1)

\* Two patterns the re module cannot compile.
RegexUnclosed ==
    <<"(">>

RegexHugeRepeat ==
    <<"a", "{", "9", "9", "9", "9", "9", "9", "9", "9", "9", "9", "9", "}">>

\* What compiling the pattern does: "(" raises re.error (unterminated
\* subpattern), a repeat count beyond the engine's limit raises
\* OverflowError, a pattern made of letters compiles.
RegexCompile(file_regex) ==
    IF file_regex = RegexUnclosed THEN "re.error"
    ELSE IF file_regex = RegexHugeRepeat THEN "OverflowError"
    ELSE "ok"

\* re.search(file_regex, p, flags=re.IGNORECASE) for a pattern made of
\* letters only: a substring search that ignores case.
RegexSearch(file_regex, str) == Contains(Lower(str), Lower(file_regex))

\* _is_generated_path(path, globs, file_regex): True at the first glob that
\* matches; otherwise the regex is tried, and a re.error counts as no match.
IsGeneratedPath(path, globs, file_regex) ==
    LET pp == Strip(path)
    IN \/ \E g \in 1..Len(globs) : FnMatch(pp, globs[g])
       \/ /\ file_regex # <<>>
          /\ RegexCompile(file_regex) = "ok"
          /\ RegexSearch(file_regex, pp)

\* _is_generated_path raises: the regex is reached (no glob matched) and
\* re.search raises an exception that `except re.error` does not catch.
IsGeneratedPathRaises(path, globs, file_regex) ==
    /\ ~\E g \in 1..Len(globs) : FnMatch(Strip(path), globs[g])
    /\ file_regex # <<>>
    /\ RegexCompile(file_regex) \notin {"ok", "re.error"}

\* _has_generated_markers(block_text, markers): a non-empty marker, lower
\* cased, is looked up in the lower-cased first head_lines lines.
HasGeneratedMarkers(block_text, markers) ==
    /\ markers # <<>>
    /\ \E m \in 1..Len(markers) :
        /\ markers[m] # <<>>
        /\ \E i \in 1..Min(Len(block_text), HeadLines) :
            Contains(Lower(block_text[i]), Lower(markers[m]))

\* blocks = [diff_text[starts[i]:starts[i + 1]] ...]: a block runs from its
\* header line to the line before the next header, or to the end.
Blocks(diff_text) ==
    LET hs == HeaderLines(diff_text)
    IN [k \in 1..Len(hs) |->
            SubSeq(diff_text, hs[k],
                   IF k < Len(hs) THEN hs[k + 1] - 1 ELSE Len(diff_text))]

\* b_path of a block: group <b> of its header, without a leading "b/".
BlockPath(blk) ==
    LET b == GroupB(blk[1])
    IN IF StartsWith(b, BDir) THEN SubSeq(b, Len(BDir) + 1, Len(b)) ELSE b

\* is_gen of a block.
IsGen(blk, cfg) ==
    \/ IsGeneratedPath(BlockPath(blk), cfg.generated_path_globs,
                       cfg.generated_file_regex)
    \/ HasGeneratedMarkers(blk, cfg.generated_header_markers)

\* A loop that keeps every block, generated or not.
KeepBlockAlways(is_gen) == TRUE

\* A loop with the two branches swapped.
KeepBlockInverted(is_gen) == is_gen

\* if is_gen: skipped.append(...) else: kept.append(blk)
KeepBlock(is_gen) == ~is_gen

\* `if not matches: return diff_text, []`
NoMatchesIgnored(blocks) == FALSE

NoMatches(blocks) == blocks = <<>>

\* filter_out_generated_diffs(diff_text, cfg): the filtered text and the
\* skipped list, with the loop's kept list and the blocks' classification.
\* When the path test of some block raises, the loop is left by the
\* exception and nothing is returned (raised is TRUE, the rest is void).
filter_out_generated_diffs(diff_text, cfg) ==
    LET blocks == Blocks(diff_text)
        gen == [k \in 1..Len(blocks) |-> IsGen(blocks[k], cfg)]
        keptIdx == Sorted({k \in 1..Len(blocks) : KeepBlock(gen[k])})
        skipIdx == Sorted({k \in 1..Len(blocks) : gen[k]})
        kept == [k \in 1..Len(keptIdx) |-> blocks[keptIdx[k]]]
    IN IF diff_text = <<>> \/ ~cfg.skip_generated \/ NoMatches(blocks)
       THEN [raised |-> FALSE, filtered |-> diff_text, skipped |-> <<>>,
             kept |-> <<>>, is_gen |-> <<>>, scanned |-> FALSE]
       ELSE IF \E k \in 1..Len(blocks) :
                  IsGeneratedPathRaises(BlockPath(blocks[k]),
                        cfg.generated_path_globs, cfg.generated_file_regex)
       THEN [raised |-> TRUE, filtered |-> <<>>, skipped |-> <<>>,
             kept |-> <<>>, is_gen |-> <<>>, scanned |-> TRUE]
       ELSE [raised |-> FALSE, filtered |-> JoinText(kept),
             skipped |-> [k \in 1..Len(skipIdx) |->
                            IF BlockPath(blocks[skipIdx[k]]) = <<>> THEN Unknown
                            ELSE BlockPath(blocks[skipIdx[k]])],
             kept |-> kept, is_gen |-> gen, scanned |-> TRUE]

\* The paths, rules and lines the diff texts are made of.
PathMinJs ==
    <<"f", "o", "o", "/", "b", "a", "r", ".", "m", "i", "n", ".", "j", "s">>

PathGo ==
    <<"f", "o", "o", "/", "b", "a", "r", ".", "g", "o">>

PathInB ==
    <<"b", "/", "x", ".", "j", "s">>

PathWithSep ==
    <<"y", " ", "b", "/", "x">>

GlobMinJs ==
    <<"*", ".", "m", "i", "n", ".", "j", "s">>

GlobInB ==
    <<"b", "/", "*">>

\* A glob with a bracket that is never closed, and a path it spells.
GlobBracket ==
    <<"x", "[">>

PathBracket ==
    <<"x", "[">>

RegexBar ==
    <<"B", "A", "R">>

MarkerGen ==
    <<"G", "E", "N">>

LineAdded ==
    <<"+", "x">>

LineMarked ==
    <<"+", "/", "/", " ", "G", "e", "n">>

LineOther ==
    <<"i", "n", "d", "e", "x", " ", "1">>

\* The header git writes for a file changed in place.
Header(path) == HeaderPrefix \o path \o HeaderSep \o path

DiffLines ==
    {Header(PathMinJs), Header(PathGo), Header(PathInB), LineAdded, LineMarked}

\* A block whose marker sits on line n of the block.
MarkedAt(n) ==
    [i \in 1..n |-> IF i = 1 THEN Header(PathGo)
                    ELSE IF i = n THEN LineMarked ELSE LineAdded]

\* Two blocks, foo/bar.min.js and foo/bar.go.
ScenarioDiff ==
    <<Header(PathMinJs), LineAdded, Header(PathGo), LineAdded>>

\* A text with lines before its first header.
PreambleDiff ==
    <<LineOther, Header(PathInB), LineMarked, Header(PathGo), LineAdded>>

\* A file whose name holds a "[", then the scenario's two blocks.
BracketDiff ==
    <<Header(PathBracket), LineAdded>> \o ScenarioDiff

\* A file whose path holds the separator " b/", between two other blocks.
SepDiff ==
    <<Header(PathGo), LineMarked, Header(PathWithSep), LineAdded,
      Header(PathMinJs)>>

DiffTexts ==
    UNION { [1..n -> DiffLines] : n \in 0..MaxDiffLines }
    \cup {ScenarioDiff, PreambleDiff, BracketDiff, SepDiff,
          MarkedAt(HeadLines), MarkedAt(HeadLines + 1)}

Rules(globs, rx, markers, on) ==
    [skip_generated |-> on, generated_path_globs |-> globs,
     generated_file_regex |-> rx, generated_header_markers |-> markers]

RuleSets ==
    {Rules(<<GlobMinJs>>, <<>>, <<>>, TRUE),
     Rules(<<GlobInB>>, <<>>, <<>>, TRUE),
     Rules(<<>>, RegexBar, <<>>, TRUE),
     Rules(<<>>, <<>>, <<MarkerGen>>, TRUE),
     Rules(<<>>, <<>>, <<>>, TRUE),
     Rules(<<GlobMinJs>>, <<>>, <<MarkerGen>>, FALSE),
     Rules(<<GlobBracket, GlobMinJs>>, RegexUnclosed, <<MarkerGen>>, TRUE),
     Rules(<<GlobMinJs>>, RegexHugeRepeat, <<>>, TRUE)}

\* `except Exception: filtered, skipped = raw, []`
FallbackOnRaiseEmpty(raw) == <<<<>>, <<>>>>

FallbackOnRaise(raw) == <<raw, <<>>>>

\* fetch_pr_diff_filtered(cfg, pr_url) from the raw diff on: the filter's
\* 2-tuple is unpacked, an exception of the filter is swallowed, and the
\* pair (filtered, skipped) is returned.
fetch_pr_diff_filtered(raw, cfg) ==
    LET res == filter_out_generated_diffs(raw, cfg)
    IN IF res.raised THEN FallbackOnRaise(raw)
       ELSE <<res.filtered, res.skipped>>

\* The rule sets fetch_pr_diff_filtered is called with: one under which the
\* filter raises, one with rules that match, one that is switched off.
FetchRuleSets ==
    {Rules(<<GlobMinJs>>, RegexHugeRepeat, <<>>, TRUE),
     Rules(<<GlobMinJs>>, <<>>, <<>>, TRUE),
     Rules(<<GlobMinJs>>, <<>>, <<MarkerGen>>, FALSE)}

DiffCalls ==
    {[fn |-> "extract_changed_files", diff_text |-> d] : d \in DiffTexts}
    \cup {[fn |-> "filter_out_generated_diffs", diff_text |-> d, cfg |-> r] :
            d \in DiffTexts, r \in RuleSets}
    \cup {[fn |-> "fetch_pr_diff_filtered", raw |-> d, cfg |-> r] :
            d \in DiffTexts, r \in FetchRuleSets}

\* The text on_review gets from fetch_pr_diff_filtered: a diff with a block
\* left, a diff whose only block is generated, a fetched text of blanks.
BlankDiff ==
    <<<<" ", "\t">>, <<>>>>

FetchedDiffs ==
    {fetch_pr_diff_filtered(ScenarioDiff, Rules(<<GlobMinJs>>, <<>>, <<>>, TRUE))[1],
     fetch_pr_diff_filtered(<<Header(PathMinJs), LineAdded>>,
                            Rules(<<GlobMinJs>>, <<>>, <<>>, TRUE))[1],
     fetch_pr_diff_filtered(BlankDiff, Rules(<<GlobMinJs>>, <<>>, <<>>, TRUE))[1]}

\* The characters str.strip() removes, among those of the texts tried.
Whitespace == {" ", "\t", "\n", "\r"}

\* A test that only knows the empty text.
IsBlankEmptyOnly(diff_text) == diff_text = <<>>

\* not (diff or "").strip(): the text holds nothing but whitespace.
IsBlank(diff_text) ==
    \A i \in 1..Len(diff_text) :
        \A j \in 1..Len(diff_text[i]) : diff_text[i][j] \in Whitespace

\* --------------------------------------------------------------- initial
\* on_review works on the text fetch_pr_diff_filtered returns;
\* on_generate_summary fetches no diff.
DiffFetched == diff \in IF handler = "review" THEN FetchedDiffs ELSE {<<>>}

InitCommon ==
    /\ handler \in {"review", "summary"}
    /\ parallel \in BOOLEAN
    /\ pc = "idle"
    /\ selected_models = <<>>
    /\ taskState = << >>
    /\ future = << >>
    /\ calls = << >>
    /\ submitted = 0
    /\ workQueue = <<>>
    /\ early = {}
    /\ waiterFinished = <<>>
    /\ seqIdx = 1
    /\ results = <<>>
    /\ errors = <<>>
    /\ synthCalls = <<>>
    /\ sections = <<>>
    /\ files = <<>>
    /\ index = <<>>
    /\ errorLog = <<>>
    /\ shown = <<>>
    /\ writeLog = <<>>

\* No library function is under check while a handler runs.
NoCall ==
    /\ call = [fn |-> "none"]
    /\ ret = [done |-> FALSE]

Init ==
    /\ InitCommon
    /\ DiffFetched
    /\ NoCall
    /\ ticked \in SUBSET (1..NumBackends)
    /\ script = <<>>

\* ---------------------------------------------------------------- actions
\* selected_models = self._collect_selected_models(); an empty selection is
\* rejected with an error box before anything runs. on_review then fetches
\* the filtered diff and raises when nothing but whitespace is left; its
\* except clause shows the error box and the handler returns.
Begin ==
    /\ pc = "idle"
    /\ selected_models' = CollectSelectedModels(ticked)
    /\ IF ticked = {}
       THEN /\ pc' = "error"
            /\ shown' = Append(shown, "error")
            /\ UNCHANGED <<taskState, future, calls>>
       ELSE IF handler = "review" /\ IsBlank(diff)
       THEN /\ pc' = "no_diff"
            /\ shown' = Append(shown, "error")
            /\ taskState' = [b \in ticked |-> "pending"]
            /\ future' = [b \in ticked |-> NotDone]
            /\ calls' = [b \in ticked |-> 0]
       ELSE /\ pc' = IF parallel THEN "submit" ELSE "seq"
            /\ taskState' = [b \in ticked |-> "pending"]
            /\ future' = [b \in ticked |-> NotDone]
            /\ calls' = [b \in ticked |-> 0]
            /\ shown' = shown
    /\ UNCHANGED <<envVars, pureVars, files, index, errorLog, writeLog, submitted, workQueue, early, waiterFinished, seqIdx,
                   results, errors, synthCalls, sections>>

\* futs = [ex.submit(run_one, m) for m in selected_models]: one submit.
Submit ==
    /\ pc = "submit"
    /\ submitted < Len(selected_models)
    /\ submitted' = submitted + 1
    /\ workQueue' = Append(workQueue, selected_models[submitted + 1])
    /\ UNCHANGED <<envVars, pureVars, outVars, writeLog, pc, selected_models, taskState, future, calls, early,
                   waiterFinished, seqIdx, results, errors, synthCalls, sections>>

\* A pool worker takes the head of the work queue and calls run_one.
WorkerStart ==
    /\ workQueue # <<>>
    /\ Cardinality(RunningSet) < MaxWorkers
    /\ LET b == Head(workQueue) IN
        /\ taskState' = [taskState EXCEPT ![b] = "running"]
        /\ calls' = [calls EXCEPT ![b] = @ + 1]
    /\ workQueue' = Tail(workQueue)
    /\ UNCHANGED <<envVars, pureVars, outVars, writeLog, pc, selected_models, future, submitted, early,
                   waiterFinished, seqIdx, results, errors, synthCalls, sections>>

\* The backend call of a pool worker returns or raises; run_one returns
\* (mname, out) or (mname, e) and the future is finished. A waiter installed
\* by as_completed records the future in completion order.
WorkerFinish(b, o) ==
    /\ parallel
    /\ b \in Selected
    /\ taskState[b] = "running"
    /\ EnvAllows(b, o)
    /\ taskState' = [taskState EXCEPT ![b] = StateOf(o)]
    /\ future' = [future EXCEPT ![b] = o]
    /\ waiterFinished' = IF pc = "as_completed" THEN Append(waiterFinished, b)
                         ELSE waiterFinished
    /\ UNCHANGED <<envVars, pureVars, outVars, writeLog, pc, selected_models, calls, submitted, workQueue, early,
                   seqIdx, results, errors, synthCalls, sections>>

\* for f in as_completed(futs): the generator starts; the futures already
\* finished form a set that is yielded first, in no particular order.
AsCompleted ==
    /\ pc = "submit"
    /\ submitted = Len(selected_models)
    /\ pc' = "as_completed"
    /\ early' = {b \in Selected : Terminal(b)}
    /\ UNCHANGED <<envVars, pureVars, outVars, writeLog, selected_models, taskState, future, calls, submitted,
                   workQueue, waiterFinished, seqIdx, results, errors, synthCalls,
                   sections>>

\* The thread that executes the statements results[mname] = ... and
\* errors[mname] = ... for backend b: the loop over as_completed(futs), or the
\* sequential loop, both run by the thread that called the handler.
WriterThreadWorker(b) == <<"worker", b>>

WriterThread(b) == "main"

\* The writes to the shared maps when the pair of backend b is recorded:
\* results[mname] always, errors[mname] when run_one returned an exception.
LogWrites(log, b, o) ==
    log \o <<[thread |-> WriterThread(b), map |-> "results", key |-> b]>>
        \o (IF o.kind = "exc"
            THEN <<[thread |-> WriterThread(b), map |-> "errors", key |-> b]>>
            ELSE <<>>)

\* One iteration of the as_completed loop: the next yielded future's pair is
\* written into the maps by the main thread.
Collect ==
    /\ pc = "as_completed"
    /\ \E b \in Selected :
        /\ IF early # {} THEN b \in early /\ EnvAllowsYield(b)
           ELSE waiterFinished # <<>> /\ b = Head(waiterFinished)
        /\ early' = early \ {b}
        /\ waiterFinished' = IF early # {} THEN waiterFinished
                             ELSE Tail(waiterFinished)
        /\ results' = StoreResult(handler, results, b, future[b])
        /\ errors' = StoreError(errors, b, future[b])
        /\ writeLog' = LogWrites(writeLog, b, future[b])
    /\ UNCHANGED <<envVars, pureVars, outVars, pc, selected_models, taskState, future, calls, submitted,
                   workQueue, seqIdx, synthCalls, sections>>

\* The futures as_completed has yielded so far: finished, and neither in the
\* set found finished at its start nor in the waiter's list.
Yielded == {b \in Selected : Terminal(b) /\ b \notin early /\ b \notin Range(waiterFinished)}

\* A loop that leaves after its first iteration (a stray break).
AsCompletedFirstOnly == Yielded # {}

\* as_completed has yielded every future: its pending set is empty, the for
\* loop ends and the with block shuts the pool down (shutdown(wait=True)).
AsCompletedExhausted == Yielded = Selected

\* for m in selected_models: the sequential loop has no element left.
SeqLoopExhausted == seqIdx > Len(selected_models)

\* A sequential loop that breaks on the first failure.
NextSeqIdxBreakOnFailure(i, o) ==
    IF o.kind = "exc" THEN Len(selected_models) + 1 ELSE i + 1

\* The index the sequential loop moves to after the pair of backend
\* selected_models[i] was recorded: the loop has no break and no continue.
NextSeqIdx(i, o) == i + 1

\* A loop that walks the list from its end.
SeqCurrentReversed == selected_models[Len(selected_models) + 1 - seqIdx]

\* for m in selected_models: the backend of the loop's current iteration.
SeqCurrent == selected_models[seqIdx]

\* Sequential mode: run_one(m) is called for the loop's current backend.
SeqStart ==
    /\ pc = "seq"
    /\ ~SeqLoopExhausted
    /\ LET b == SeqCurrent IN
        /\ taskState[b] = "pending"
        /\ taskState' = [taskState EXCEPT ![b] = "running"]
        /\ calls' = [calls EXCEPT ![b] = @ + 1]
    /\ UNCHANGED <<envVars, pureVars, outVars, writeLog, pc, selected_models, future, submitted, workQueue,
                   early, waiterFinished, seqIdx, results, errors, synthCalls,
                   sections>>

\* Sequential mode: the call returns or raises, run_one returns its pair and
\* the loop body records it.
SeqFinish(o) ==
    /\ pc = "seq"
    /\ ~SeqLoopExhausted
    /\ LET b == SeqCurrent IN
        /\ taskState[b] = "running"
        /\ EnvAllows(b, o)
        /\ taskState' = [taskState EXCEPT ![b] = StateOf(o)]
        /\ future' = [future EXCEPT ![b] = o]
        /\ results' = StoreResult(handler, results, b, o)
        /\ errors' = StoreError(errors, b, o)
        /\ writeLog' = LogWrites(writeLog, b, o)
    /\ seqIdx' = NextSeqIdx(seqIdx, o)
    /\ UNCHANGED <<envVars, pureVars, outVars, pc, selected_models, calls, submitted, workQueue,
                   early, waiterFinished, synthCalls, sections>>

\* The fan-out step ends: the loop of the chosen mode is exhausted.
Join ==
    /\ \/ pc = "as_completed" /\ AsCompletedExhausted
       \/ pc = "seq" /\ SeqLoopExhausted
    /\ pc' = "joined"
    /\ UNCHANGED <<envVars, pureVars, outVars, writeLog, selected_models, taskState, future, calls, submitted,
                   workQueue, early, waiterFinished, seqIdx, results, errors,
                   synthCalls, sections>>

\* srcs of synthesize_file_history_with_base: the truthy items of
\* summaries_by_model in the dict's iteration order.
SynthSources(d) == SelectSeq(d, LAMBDA it : Truthy(it.v))

\* A sources message without the fallback for an empty list.
SourcesMessageJoinOnly(srcs) == [text |-> "joined", srcs |-> srcs]

\* "\n\n".join(srcs) if srcs else "No sources."
SourcesMessage(srcs) ==
    IF srcs # <<>> THEN [text |-> "joined", srcs |-> srcs]
    ELSE [text |-> NoSourcesMarker, srcs |-> <<>>]

\* on_generate_summary calls synthesize_file_history_with_base(cfg,
\* "llama-3-3-70b-instruct", results, ...): the request is sent.
Synthesize ==
    /\ pc = "joined"
    /\ handler = "summary"
    /\ synthCalls' = Append(synthCalls,
            [model |-> BaseModel, sources |-> SourcesMessage(SynthSources(results))])
    /\ pc' = "synth"
    /\ UNCHANGED <<envVars, pureVars, outVars, writeLog, selected_models, taskState, future, calls, submitted,
                   workQueue, early, waiterFinished, seqIdx, results, errors,
                   sections>>

\* The base backend answers: final_fragment is available.
SynthReturn ==
    /\ pc = "synth"
    /\ pc' = "synth_ok"
    /\ UNCHANGED <<envVars, pureVars, outVars, writeLog, selected_models, taskState, future, calls, submitted,
                   workQueue, early, waiterFinished, seqIdx, results, errors,
                   synthCalls, sections>>

\* A handler that saves the individual backend results when the reducer
\* fails.
FilesOnExceptionFallback(fs, d) == Append(fs, [kind |-> "fallback", body |-> d])

\* The files under STORE_DIR after the handler's except clause ran: it stops
\* the busy indicator, shows the error and sets the status, and writes nothing.
FilesOnException(fs, d) == fs

\* The base backend call raises: synthesize_file_history_with_base lets the
\* exception through and the handler's except clause shows it.
SynthRaise ==
    /\ pc = "synth"
    /\ pc' = "error"
    /\ files' = FilesOnException(files, results)
    /\ index' = IF files' = files THEN index
                ELSE Append(index, [path |-> Len(files')])
    /\ shown' = Append(shown, "error")
    /\ UNCHANGED <<envVars, pureVars, errorLog, writeLog, selected_models, taskState, future, calls, submitted,
                   workQueue, early, waiterFinished, seqIdx, results, errors,
                   synthCalls, sections>>

\* Report sections taken from the result map's iteration order.
ReportSectionsByCompletion(sel, d) ==
    [i \in 1..Len(d) |-> [m |-> d[i].k, fragment |-> NormalizeModelHtml(d[i].v)]]

\* on_review step 4: sections.append((m, normalized)) for m in selected_models.
ReportSections(sel, d) ==
    [i \in 1..Len(sel) |->
        [m |-> sel[i], fragment |-> NormalizeModelHtml(DictGet(d, sel[i], ""))]]

BuildReport ==
    /\ pc = "joined"
    /\ handler = "review"
    /\ sections' = ReportSections(selected_models, results)
    /\ pc' = "report"
    /\ UNCHANGED <<envVars, pureVars, outVars, writeLog, selected_models, taskState, future, calls, submitted,
                   workQueue, early, waiterFinished, seqIdx, results, errors,
                   synthCalls>>

\* A failed list whose items carry the whole escaped message.
FailedItemUncut(h, m, msg) ==
    IF h = "review" THEN [m |-> m, msg |-> esc(msg)]
    ELSE [m |-> m, msg |-> EscapeHtml(msg)]

\* One <li> of the report's failed-models list. App._wrap_full_report writes
\* esc(m) and esc(err)[:400]; on_generate_summary writes _escape_html(m) and
\* _escape_html(msg). Registry ids hold no character that escaping rewrites.
FailedItem(h, m, msg) ==
    IF h = "review" THEN [m |-> m, msg |-> Prefix(esc(msg), FailedMsgLimit)]
    ELSE [m |-> m, msg |-> EscapeHtml(msg)]

\* The failed-models list: one item per item of the error map, in the map's
\* iteration order; no list at all when the map is empty.
FailedList(h, errs) == [i \in 1..Len(errs) |-> FailedItem(h, errs[i].k, errs[i].v)]

\* The tail shared by both handlers: the report file is written, an item
\* naming it is appended to the index, and a warning lists the failures.
SaveArtifact(body) ==
    /\ files' = Append(files, [kind |-> handler, body |-> body,
                               failed |-> FailedList(handler, errors)])
    /\ index' = Append(index, [path |-> Len(files) + 1])
    /\ shown' = IF errors # <<>> THEN Append(shown, "warning") ELSE shown
    /\ pc' = "saved"

\* on_generate_summary after the reducer returned: normalize, append the
\* failed section, write the file, index it, warn.
SaveSummary ==
    /\ pc = "synth_ok"
    /\ SaveArtifact("final_fragment")
    /\ UNCHANGED <<envVars, pureVars, errorLog, writeLog, selected_models,
                   taskState, future, calls, submitted, workQueue, early,
                   waiterFinished, seqIdx, results, errors, synthCalls, sections>>

\* on_review after the sections were built: _save_error_log(errors) if
\* errors, wrap the report, write the file, index it, warn.
SaveReport ==
    /\ pc = "report"
    /\ errorLog' = IF errors # <<>>
                   THEN Append(errorLog, [i \in 1..Len(errors) |->
                            [m |-> errors[i].k, msg |-> esc(errors[i].v)]])
                   ELSE errorLog
    /\ SaveArtifact(sections)
    /\ UNCHANGED <<envVars, pureVars, writeLog, selected_models, taskState,
                   future, calls, submitted, workQueue, early, waiterFinished,
                   seqIdx, results, errors, synthCalls, sections>>

Next ==
    \/ Begin
    \/ Submit
    \/ WorkerStart
    \/ \E b \in Selected : \E o \in Outcomes(handler) : WorkerFinish(b, o)
    \/ AsCompleted
    \/ Collect
    \/ SeqStart
    \/ \E o \in Outcomes(handler) : SeqFinish(o)
    \/ Join
    \/ Synthesize
    \/ SynthReturn
    \/ SynthRaise
    \/ SaveSummary
    \/ BuildReport
    \/ SaveReport

Spec == Init /\ [][Next]_vars

\* Sequential mode alone, with the progress the single thread makes: it
\* starts the next call, and every backend call ends (by its reply or by the
\* transport's timeout).
InitSeq == Init /\ parallel = FALSE

NextSeq ==
    \/ Begin
    \/ SeqStart
    \/ \E o \in Outcomes(handler) : SeqFinish(o)
    \/ Join
    \/ Synthesize
    \/ SynthReturn
    \/ SynthRaise
    \/ SaveSummary
    \/ BuildReport
    \/ SaveReport

SeqSpec ==
    /\ InitSeq
    /\ [][NextSeq]_vars
    /\ WF_vars(SeqStart)
    /\ WF_vars(\E o \in Outcomes(handler) : SeqFinish(o))

\* More backends than the pool's cap: CapBackends ticked entries, the
\* backends' responses drawn from a few scripted schedules.
CapOrders ==
    { [i \in 1..CapBackends |-> i],
      [i \in 1..CapBackends |-> IF i = CapBackends THEN i ELSE CapBackends - i],
      [i \in 1..CapBackends |-> (i % CapBackends) + 1] }

CapPatterns ==
    { [b \in 1..CapBackends |-> [kind |-> "ok", val |-> "A"]],
      [b \in 1..CapBackends |->
          IF b % 2 = 1 THEN [kind |-> "exc", val |-> ShortMsg]
          ELSE [kind |-> "ok", val |-> "B"]],
      [b \in 1..CapBackends |->
          IF b % 3 = 0 THEN [kind |-> "ok", val |-> ""]
          ELSE [kind |-> "exc", val |-> LongMsg]] }

CapScripts ==
    { [i \in 1..CapBackends |-> [b |-> ord[i], o |-> pat[ord[i]]]] :
        ord \in CapOrders, pat \in CapPatterns }

InitCap ==
    /\ InitCommon
    /\ DiffFetched
    /\ NoCall
    /\ ticked = 1..CapBackends
    /\ script \in CapScripts

\* The pool's worker threads are scheduled: a worker that can take the head
\* of the work queue does so.
CapSpec == InitCap /\ [][Next]_vars /\ WF_vars(WorkerStart)

\* ------------------------------------------------------------- chunk_text
\* The line boundaries of str.splitlines that occur in the texts tried: "\n",
\* "\r" and the pair "\r\n". A boundary character is a run of its own.
LineTerminators == {"\n", "\r"}

\* Run i of text t ends a line of t.splitlines(keepends=True): it is the last
\* run, or a boundary character that is not the "\r" of a "\r\n".
IsLineEnd(t, i) ==
    \/ i = Len(t)
    \/ /\ t[i].c \in LineTerminators
       /\ ~(t[i].c = "\r" /\ t[i + 1].c = "\n")

\* The last run of the line that starts at run pos.
NextLineEnd(t, pos) ==
    CHOOSE i \in pos..Len(t) :
        IsLineEnd(t, i) /\ \A j \in pos..(i - 1) : ~IsLineEnd(t, j)

\* A loop body that drops the line at which a chunk is closed.
ChunkLoopBodyDropLine(st, ln, max_chars) ==
    IF st.size + TextLen(ln) > max_chars /\ st.cur # <<>>
    THEN [parts |-> Append(st.parts, JoinText(st.cur)), cur |-> <<>>, size |-> 0]
    ELSE [parts |-> st.parts, cur |-> Append(st.cur, ln),
          size |-> st.size + TextLen(ln)]

\* A test that closes the chunk even when it holds no line yet.
CloseChunkNoCurTest(size, ln_len, max_chars, cur) == size + ln_len > max_chars

\* A test made on the size before the line is counted.
CloseChunkLate(size, ln_len, max_chars, cur) == size > max_chars /\ cur # <<>>

\* A test that closes the chunk as soon as the budget is reached.
CloseChunkAtBudget(size, ln_len, max_chars, cur) ==
    size + ln_len >= max_chars /\ cur # <<>>

\* if size + ln_len > max_chars and cur
CloseChunk(size, ln_len, max_chars, cur) ==
    size + ln_len > max_chars /\ cur # <<>>

\* The body of `for ln in s.splitlines(keepends=True)`: parts, cur and size
\* after the iteration for line ln.
ChunkLoopBody(st, ln, max_chars) ==
    LET ln_len == TextLen(ln) IN
    IF CloseChunk(st.size, ln_len, max_chars, st.cur)
    THEN [parts |-> Append(st.parts, JoinText(st.cur)), cur |-> <<ln>>, size |-> ln_len]
    ELSE [parts |-> st.parts, cur |-> Append(st.cur, ln), size |-> st.size + ln_len]

\* The texts of at most MaxTextLen characters over a letter and the two
\* boundary characters.
SmallTexts ==
    UNION { [1..n -> {[c |-> ch, n |-> 1] : ch \in {"a"} \cup LineTerminators}] :
            n \in 0..MaxTextLen }

\* 300 lines of 100 characters each, the line break included: 30,000
\* characters.
ScenarioText ==
    [i \in 1..600 |-> IF i % 2 = 1 THEN [c |-> "x", n |-> 99]
                      ELSE [c |-> "\n", n |-> 1]]

ChunkCalls ==
    {[fn |-> "chunk_text", s |-> t, max_chars |-> m] :
        t \in SmallTexts, m \in 1..MaxBudget}
    \cup {[fn |-> "chunk_text", s |-> ScenarioText, max_chars |-> DefaultMaxChars]}

\* Everything the fan-out handlers own: untouched by the library functions.
fanVars == <<envVars, outVars, writeLog, pc, selected_models, taskState, future,
             calls, submitted, workQueue, early, waiterFinished, seqIdx, results,
             errors, synthCalls, sections>>

\* The handlers stay idle while a library function is exercised.
InitIdle ==
    /\ InitCommon
    /\ handler = "review"
    /\ parallel = FALSE
    /\ ticked = {}
    /\ script = <<>>
    /\ diff = <<>>

\* chunk_text is entered: parts, cur, size = [], [], 0 and the loop is at the
\* first line.
InitChunk ==
    /\ InitIdle
    /\ call \in ChunkCalls
    /\ ret = [done |-> FALSE, parts |-> <<>>, cur |-> <<>>, size |-> 0, pos |-> 1]

\* One iteration of the for loop.
ChunkTextIter ==
    /\ call.fn = "chunk_text"
    /\ ~ret.done
    /\ ret.pos <= Len(call.s)
    /\ LET e == NextLineEnd(call.s, ret.pos)
           st == ChunkLoopBody(ret, SubSeq(call.s, ret.pos, e), call.max_chars)
       IN ret' = [done |-> FALSE, parts |-> st.parts, cur |-> st.cur,
                  size |-> st.size, pos |-> e + 1]
    /\ UNCHANGED <<fanVars, call>>

\* The loop is over: if cur: parts.append("".join(cur)); return parts.
ChunkTextReturn ==
    /\ call.fn = "chunk_text"
    /\ ~ret.done
    /\ ret.pos > Len(call.s)
    /\ ret' = [ret EXCEPT !.done = TRUE,
                          !.parts = IF ret.cur # <<>>
                                    THEN Append(ret.parts, JoinText(ret.cur))
                                    ELSE ret.parts]
    /\ UNCHANGED <<fanVars, call>>

NextChunk ==
    \/ ChunkTextIter
    \/ ChunkTextReturn

ChunkSpec == InitChunk /\ [][NextChunk]_vars

\* ---------------------------------------------- diff functions: calls
InitDiff ==
    /\ InitIdle
    /\ call \in DiffCalls
    /\ ret = [done |-> FALSE]

ExtractChangedFiles ==
    /\ call.fn = "extract_changed_files"
    /\ ~ret.done
    /\ ret' = [done |-> TRUE, files |-> extract_changed_files(call.diff_text)]
    /\ UNCHANGED <<fanVars, call>>

\* The rule set as the call leaves it: the function only reads cfg
\* (cfg.get) and builds its own lists.
CfgAfterCallRulesConsumed(cfg) == [cfg EXCEPT !.generated_path_globs = <<>>]

CfgAfterCall(cfg) == cfg

\* A first call of filter_out_generated_diffs.
FilterOutGeneratedDiffs ==
    /\ call.fn = "filter_out_generated_diffs"
    /\ ~ret.done
    /\ ret' = [done |-> TRUE,
               out |-> filter_out_generated_diffs(call.diff_text, call.cfg),
               again |-> [of |-> "none"]]
    /\ call' = [call EXCEPT !.cfg = CfgAfterCall(@)]
    /\ UNCHANGED fanVars

\* A second call with the objects the first call was given.
FilterSameAgain ==
    /\ call.fn = "filter_out_generated_diffs"
    /\ ret.done
    /\ ret.again.of = "none"
    /\ ret' = [ret EXCEPT !.again =
                 [of |-> "same",
                  out |-> filter_out_generated_diffs(call.diff_text, call.cfg)]]
    /\ call' = [call EXCEPT !.cfg = CfgAfterCall(@)]
    /\ UNCHANGED fanVars

\* A second call on the text the first call returned, with the same rules.
FilterOutputAgain ==
    /\ call.fn = "filter_out_generated_diffs"
    /\ ret.done
    /\ ~ret.out.raised
    /\ ret.again.of = "none"
    /\ ret' = [ret EXCEPT !.again =
                 [of |-> "output",
                  out |-> filter_out_generated_diffs(ret.out.filtered, call.cfg)]]
    /\ call' = [call EXCEPT !.cfg = CfgAfterCall(@)]
    /\ UNCHANGED fanVars

FetchPrDiffFiltered ==
    /\ call.fn = "fetch_pr_diff_filtered"
    /\ ~ret.done
    /\ ret' = [done |-> TRUE, out |-> fetch_pr_diff_filtered(call.raw, call.cfg)]
    /\ UNCHANGED <<fanVars, call>>

NextDiff ==
    \/ ExtractChangedFiles
    \/ FilterOutGeneratedDiffs
    \/ FilterSameAgain
    \/ FilterOutputAgain
    \/ FetchPrDiffFiltered

DiffSpec == InitDiff /\ [][NextDiff]_vars

\* One backend call never returns nor raises (no timeout fires while the run
\* is observed): the scripted schedules of CapScripts without that backend.
HungChoices == {1, (CapBackends + 1) \div 2, CapBackends}

HangScripts ==
    { SelectSeq(sc, LAMBDA e : e.b # h) : sc \in CapScripts, h \in HungChoices }

InitHang ==
    /\ InitCommon
    /\ DiffFetched
    /\ NoCall
    /\ ticked = 1..CapBackends
    /\ script \in HangScripts

\* The backend whose call hangs: the one the schedule never lets end.
Hung == CHOOSE b \in 1..CapBackends : \A i \in 1..Len(script) : script[i].b # b

\* With a call that never ends the fan-out loop never ends either: the steps
\* up to the join are all there is.
NextHang ==
    \/ Begin
    \/ Submit
    \/ WorkerStart
    \/ \E b \in Selected : \E o \in Outcomes(handler) : WorkerFinish(b, o)
    \/ AsCompleted
    \/ Collect
    \/ SeqStart
    \/ \E o \in Outcomes(handler) : SeqFinish(o)

\* The calling thread and the pool's workers are scheduled, and every call
\* other than the hung one ends.
HangSpec ==
    /\ InitHang
    /\ [][NextHang]_vars
    /\ WF_vars(Submit)
    /\ WF_vars(WorkerStart)
    /\ WF_vars(\E b \in Selected : \E o \in Outcomes(handler) : WorkerFinish(b, o))
    /\ WF_vars(AsCompleted)
    /\ WF_vars(Collect)
    /\ WF_vars(SeqStart)
    /\ WF_vars(\E o \in Outcomes(handler) : SeqFinish(o))

\* Every backend call ends: runs without a schedule over up to LiveBackends
\* backends, and scheduled runs over CapBackends backends. The sequential
\* loop calls the backends in list order, so its schedules are the ones in
\* that order.
LiveScripts(par) ==
    IF par THEN CapScripts
    ELSE {sc \in CapScripts : \A i \in 1..Len(sc) : sc[i].b = i}

InitLive ==
    /\ InitCommon
    /\ DiffFetched
    /\ NoCall
    /\ \/ ticked \in SUBSET (1..LiveBackends) /\ script = <<>>
       \/ ticked = 1..CapBackends /\ script \in LiveScripts(parallel)

\* The calling thread and the pool's workers are scheduled, and every backend
\* call returns or raises.
LiveSpec ==
    /\ InitLive
    /\ [][Next]_vars
    /\ WF_vars(Submit)
    /\ WF_vars(WorkerStart)
    /\ WF_vars(\E b \in Selected : \E o \in Outcomes(handler) : WorkerFinish(b, o))
    /\ WF_vars(AsCompleted)
    /\ WF_vars(Collect)
    /\ WF_vars(SeqStart)
    /\ WF_vars(\E o \in Outcomes(handler) : SeqFinish(o))
    /\ WF_vars(Join)
    /\ WF_vars(Synthesize)

\* ------------------------------------------------------------- claims
\* The fan-out step of the running handler is over (a handler that stopped
\* for want of a diff never entered it).
FanOutFinished ==
    /\ selected_models # <<>>
    /\ pc \notin {"idle", "no_diff", "submit", "as_completed", "seq"}

\* The backends whose invocation raised.
Raised == {b \in Selected : future[b].kind = "exc"}

\* C1: in on_generate_summary the reducer call
\* synthesize_file_history_with_base is started only when every per-backend
\* task is done or failed, never while one is still pending or running.
C1_SynthesisAfterFullJoin ==
    synthCalls # <<>> => \A b \in Selected : Terminal(b)

\* C1 witness: a parallel run over three backends, one of them failed, has
\* sent the reducer's request.
C1_Witness ==
    /\ handler = "summary" /\ parallel
    /\ synthCalls # <<>>
    /\ Len(selected_models) = 3
    /\ Raised # {} /\ Raised # Selected

\* C2: the fan-out step of either handler finishes only when every configured
\* backend's task is done or failed, and every backend was run, whichever task
\* failed first and in whichever mode.
C2_NoEarlyExitOnFailure ==
    FanOutFinished =>
        \A b \in Selected : Terminal(b) /\ calls[b] >= 1

\* C2 witness: the fan-out finished, the first pair recorded was a failure
\* and a backend recorded after it succeeded.
C2_Witness ==
    /\ pc = "joined"
    /\ Len(results) >= 2
    /\ results[1].k \in Raised
    /\ \E i \in 2..Len(results) : taskState[results[i].k] = "done"

\* A sequence without repeated elements.
NoDup(q) == \A i, j \in 1..Len(q) : q[i] = q[j] => i = j

\* What a backend's task handed back as text: its output, or nothing when it
\* raised.
OutputOrEmpty(o) == IF o.kind = "exc" THEN "" ELSE o.val

AllSucceeded == \A b \in Selected : future[b].kind = "ok"

\* C4 as stated: if every backend invocation returns without raising, the
\* result map has N non-empty entries and the error map is empty.
C4_AllSucceedNonEmpty ==
    (FanOutFinished /\ AllSucceeded) =>
        /\ Len(results) = Len(selected_models)
        /\ \A i \in 1..Len(results) : Truthy(results[i].v)
        /\ errors = <<>>

\* C4 amended: if every backend invocation returns without raising, the
\* result map has N entries, one per backend, each non-empty exactly when its
\* backend returned a non-empty text, and the error map is empty.
C4_AllSucceedNoErrors ==
    (FanOutFinished /\ AllSucceeded) =>
        /\ Len(results) = Len(selected_models)
        /\ \A b \in Selected :
              /\ DictHas(results, b)
              /\ Truthy(DictGet(results, b, NoneVal)) <=> Truthy(future[b].val)
        /\ errors = <<>>

\* C4 witness: a finished fan-out in which all three backends returned, one
\* of them an empty text.
C4_Witness ==
    /\ FanOutFinished /\ AllSucceeded
    /\ Len(selected_models) = 3
    /\ \E b \in Selected : ~Truthy(future[b].val)
    /\ \E b \in Selected : Truthy(future[b].val)

\* The backends with a truthy result, in the order of selected_models.
NonEmptyInCallerOrder ==
    SelectSeq(selected_models, LAMBDA m : Truthy(DictGet(results, m, "")))

\* C5: the context the reducer sends to the base backend lists the non-empty
\* results in the order of selected_models, in both modes and for every
\* completion order.
C5_SourcesInCallerOrder ==
    synthCalls # <<>> =>
        DictKeys(synthCalls[1].sources.srcs) = NonEmptyInCallerOrder

\* C6: the sections of the on_review report are one pair (backend id,
\* fragment of its output or of the empty text) per configured backend, in
\* the order of selected_models, whatever the completion order was.
C6_SectionsInCallerOrder ==
    (handler = "review" /\ pc \in {"report", "saved"}) =>
        sections = [i \in 1..Len(selected_models) |->
            [m |-> selected_models[i],
             fragment |->
                NormalizeModelHtml(OutputOrEmpty(future[selected_models[i]]))]]

\* C6 witness: a report built after a parallel fan-out over three backends
\* whose results were recorded in another order than selected_models, one of
\* them a failure.
C6_Witness ==
    /\ handler = "review" /\ pc = "report" /\ parallel
    /\ Len(selected_models) = 3
    /\ DictKeys(results) # selected_models
    /\ Raised # {} /\ Raised # Selected

\* In sequential mode the tasks are started in list order, one at a time.
SequentialOneAtATime ==
    ~parallel =>
        /\ Cardinality(RunningSet) <= 1
        /\ \A i, j \in 1..Len(selected_models) :
              (i < j /\ taskState[selected_models[j]] # "pending")
                  => Terminal(selected_models[i])

\* The task at position i of the list has failed.
FailedAt(i) ==
    /\ i <= Len(selected_models)
    /\ taskState[selected_models[i]] = "failed"

\* Every task after position i of the list has been started.
LaterTasksStarted(i) ==
    \A j \in (i + 1)..Len(selected_models) :
        taskState[selected_models[j]] # "pending"

\* C7: in sequential mode the backend tasks run one at a time in list order
\* (a task starts only after every earlier task is done or failed), and a
\* task that fails is followed by the start of every later task of the list.
C7_SequentialInListOrder ==
    /\ []SequentialOneAtATime
    /\ \A i \in 1..NumBackends : FailedAt(i) ~> LaterTasksStarted(i)

\* C7 witness: sequential mode, the first of three tasks failed and the last
\* one has been started.
C7_Witness ==
    /\ ~parallel
    /\ Len(selected_models) = 3
    /\ FailedAt(1)
    /\ taskState[selected_models[3]] = "running"

\* C8: in parallel mode at most min(backendCount, 8) tasks are running in any
\* reachable state, and once a slot is free the pending task at the head of
\* the queue is admitted to running.
C8_BoundedParallelism ==
    /\ [](Cardinality(RunningSet) <= Min(Len(selected_models), ConcurrencyCap))
    /\ \A b \in 1..CapBackends :
          (/\ workQueue # <<>>
           /\ Head(workQueue) = b
           /\ Cardinality(RunningSet) < Min(Len(selected_models), ConcurrencyCap))
              ~> (b \in Selected /\ taskState[b] # "pending")

\* C8 witness: more backends than the cap; the last one is running after a
\* slot was freed, and the cap's worth of tasks is running.
C8_Witness ==
    /\ parallel
    /\ Len(selected_models) > ConcurrencyCap
    /\ Cardinality(RunningSet) = ConcurrencyCap
    /\ taskState[selected_models[Len(selected_models)]] = "running"
    /\ NumFinished >= 1

\* One step of a task: it stays where it is, or moves pending -> running
\* (with its only invocation of run_one), running -> done or running -> failed.
TaskStep(b) ==
    \/ /\ taskState'[b] = taskState[b]
       /\ calls'[b] = calls[b]
    \/ /\ taskState[b] = "pending" /\ taskState'[b] = "running"
       /\ calls[b] = 0 /\ calls'[b] = 1
    \/ /\ taskState[b] = "running" /\ taskState'[b] \in {"done", "failed"}
       /\ calls'[b] = calls[b]

\* C9: every backend task goes pending -> running -> done or
\* pending -> running -> failed, done and failed are terminal, no task goes
\* back to pending or running, and each configured backend's invocation
\* function has been called exactly once when the fan-out is over.
C9_TaskLifecycle ==
    /\ [][\A b \in (DOMAIN taskState) \cap (DOMAIN taskState') : TaskStep(b)]_vars
    /\ [](FanOutFinished => \A b \in Selected : calls[b] = 1)

\* C9 witness: a finished fan-out in which a task failed and was invoked once.
C9_Witness ==
    /\ FanOutFinished
    /\ Len(selected_models) >= 2
    /\ \E b \in Selected : taskState[b] = "failed" /\ calls[b] = 1
    /\ \E b \in Selected : taskState[b] = "done" /\ calls[b] = 1

\* The reducer's call has been issued (it may be in flight, answered or failed).
SynthesisStarted ==
    /\ handler = "summary"
    /\ selected_models # <<>>
    /\ pc \in {"synth", "synth_ok", "saved", "error"}

\* Every entry of the result map is empty (a placeholder, "" or None).
AllResultsEmpty == \A i \in 1..Len(results) : ~Truthy(results[i].v)

\* C10: when every entry of the result map is empty, on_generate_summary
\* still invokes the base backend exactly once, and the sources message of
\* that request is the marker "No sources."; building the request does not
\* fail on the empty input.
C10_NoSourcesMarker ==
    (SynthesisStarted /\ AllResultsEmpty) =>
        /\ Len(synthCalls) = 1
        /\ synthCalls[1].model = BaseModel
        /\ synthCalls[1].sources = [text |-> NoSourcesMarker, srcs |-> <<>>]

\* C10 witness: the reducer was called after a fan-out in which one backend
\* raised, one returned None and one returned the empty text.
C10_Witness ==
    /\ SynthesisStarted /\ AllResultsEmpty
    /\ Len(selected_models) = 3
    /\ Raised # {}
    /\ \E b \in Selected : future[b] = [kind |-> "ok", val |-> NoneVal]
    /\ \E b \in Selected : future[b] = [kind |-> "ok", val |-> ""]

\* The reducer call of on_generate_summary was made and raised.
ReducerRaised ==
    /\ handler = "summary"
    /\ pc = "error"
    /\ synthCalls # <<>>

\* C11: when synthesize_file_history_with_base raises, the run leaves no
\* artifact: no report file, no index item, no fallback file built from the
\* backends' results; the only thing shown is the error box.
C11_NoArtifactOnReducerFailure ==
    ReducerRaised =>
        /\ files = <<>>
        /\ index = <<>>
        /\ shown = <<"error">>

\* The reducer raised although a backend had returned a usable text.
C11_Witness ==
    /\ ReducerRaised
    /\ \E i \in 1..Len(results) : Truthy(results[i].v)

\* The text of the failed-list item of error-map item i is a prefix of the
\* escaped message.
ItemIsPrefix(item, escaped) == Prefix(escaped, TextLen(item.msg)) = item.msg

\* The report file and its index item exist, and the failed list has one item
\* per item of the error map, for the same backend, in the map's order.
ArtifactListsFailures ==
    /\ Len(files) = 1
    /\ index = <<[path |-> 1]>>
    /\ Len(files[1].failed) = Len(errors)
    /\ \A i \in 1..Len(errors) : files[1].failed[i].m = errors[i].k

\* C12 as first stated: every item of the failed list carries its backend's
\* whole (escaped) failure message.
C12_FailedListWholeMessages ==
    pc = "saved" =>
        /\ ArtifactListsFailures
        /\ \A i \in 1..Len(errors) :
            files[1].failed[i].msg = HtmlEscape(errors[i].v, handler = "review")

\* C12: a run that ends in an error has either no backend selected or a
\* reducer that raised; every other finished run wrote one report file and
\* one index item, with one failed-list item per error-map item. The item
\* holds the escaped message: whole in on_generate_summary, its first 400
\* characters in on_review.
C12_FailedListCutMessages ==
    /\ pc = "error" => (selected_models = <<>> \/ ReducerRaised)
    /\ pc = "saved" =>
        /\ ArtifactListsFailures
        /\ \A i \in 1..Len(errors) :
            LET item == files[1].failed[i]
                escaped == HtmlEscape(errors[i].v, handler = "review")
            IN /\ ItemIsPrefix(item, escaped)
               /\ TextLen(item.msg) =
                    IF handler = "review"
                    THEN Min(TextLen(escaped), FailedMsgLimit)
                    ELSE TextLen(escaped)

\* An on_review run saved with some, not all, backends failed, one of them
\* with a message longer than the limit.
C12_Witness ==
    /\ pc = "saved"
    /\ handler = "review"
    /\ Len(errors) > 0
    /\ Len(errors) < Len(selected_models)
    /\ \E i \in 1..Len(errors) : TextLen(esc(errors[i].v)) > FailedMsgLimit

\* The positions of the write log at which map[b] was written.
WritesTo(map, b) ==
    {i \in 1..Len(writeLog) : writeLog[i].map = map /\ writeLog[i].key = b}

\* C13: every selected backend's result-map entry is written at most once
\* while the fan-out runs and exactly once when it has ended, its error-map
\* entry at most once; every write is made by one and the same thread, so no
\* two workers write a key, or the maps, at the same time.
C13_EachKeyWrittenOnce ==
    /\ \A i \in 1..Len(writeLog) : writeLog[i].key \in Selected
    /\ \A b \in Selected :
        /\ Cardinality(WritesTo("results", b)) <= 1
        /\ Cardinality(WritesTo("errors", b)) <= 1
        /\ FanOutFinished => Cardinality(WritesTo("results", b)) = 1
    /\ \A i, j \in 1..Len(writeLog) : writeLog[i].thread = writeLog[j].thread

\* A parallel run of three backends whose futures were recorded out of list
\* order, two of them failed.
C13_Witness ==
    /\ parallel
    /\ pc = "joined"
    /\ Len(selected_models) = 3
    /\ DictKeys(results) # selected_models
    /\ Len(errors) = 2
    /\ Len(writeLog) = 5

\* Every backend but the hung one has ended and its pair is recorded, while
\* the hung call is still outstanding.
OthersEndedDuringHang ==
    /\ pc # "idle"
    /\ taskState[Hung] = "running"
    /\ \A b \in Selected \ {Hung} : Terminal(b) /\ DictHas(results, b)

\* C14: in parallel mode a call that hangs holds one worker only: every other
\* backend's call still ends and is recorded while the hung call is
\* outstanding. In sequential mode no backend later in the list has started
\* while a call is outstanding.
C14_HungCallHoldsOneSlot ==
    /\ [](~parallel =>
            \A i, j \in 1..Len(selected_models) :
                (i < j /\ taskState[selected_models[i]] = "running")
                    => taskState[selected_models[j]] = "pending")
    /\ (parallel /\ pc = "submit") ~> OthersEndedDuringHang

\* More backends than workers, the first submitted call hangs, and all the
\* others have ended.
C14_Witness ==
    /\ parallel
    /\ pc = "as_completed"
    /\ Len(selected_models) > MaxWorkers
    /\ Hung = 1
    /\ OthersEndedDuringHang

\* chunk_text has returned.
ChunkReturned == call.fn = "chunk_text" /\ ret.done

\* Number of runs of the first k chunks: where chunk k ends in the input.
RECURSIVE ChunkEnd(_, _)
ChunkEnd(parts, k) == IF k = 0 THEN 0 ELSE Len(parts[k]) + ChunkEnd(parts, k - 1)

\* Number of lines of a text.
NumLines(t) == Cardinality({i \in 1..Len(t) : IsLineEnd(t, i)})

\* C15: the chunks chunk_text returns, concatenated in order, are the input,
\* and every chunk ends where a line of the input ends.
C15_ChunksRebuildInput ==
    ChunkReturned =>
        /\ call.max_chars >= 1
        /\ JoinText(ret.parts) = call.s
        /\ \A k \in 1..Len(ret.parts) :
            IsLineEnd(call.s, ChunkEnd(ret.parts, k))

\* A text of several lines, with a "\r\n" in it, returned as several chunks.
C15_Witness ==
    /\ ChunkReturned
    /\ Len(ret.parts) >= 2
    /\ NumLines(call.s) > Len(ret.parts)
    /\ \E i \in 1..(Len(call.s) - 1) : call.s[i].c = "\r" /\ call.s[i + 1].c = "\n"

\* The first run of the line that ends at run e of t.
LineStart(t, e) ==
    CHOOSE i \in 1..e : \A j \in i..(e - 1) : ~IsLineEnd(t, j)

\* C16: no chunk is empty, an empty input gives no chunk at all, and every
\* line longer than max_chars is a chunk by itself: some chunk starts where
\* the line starts and ends where the line ends.
C16_NoEmptyChunkLongLineAlone ==
    ChunkReturned =>
        /\ \A k \in 1..Len(ret.parts) : ret.parts[k] # <<>>
        /\ call.s = <<>> => ret.parts = <<>>
        /\ call.s # <<>> => ret.parts # <<>>
        /\ \A e \in 1..Len(call.s) :
            (/\ IsLineEnd(call.s, e)
             /\ TextLen(SubSeq(call.s, LineStart(call.s, e), e)) > call.max_chars)
            => \E k \in 1..Len(ret.parts) :
                /\ ChunkEnd(ret.parts, k) = e
                /\ ChunkEnd(ret.parts, k - 1) + 1 = LineStart(call.s, e)

\* An over-long line between two other lines.
C16_Witness ==
    /\ ChunkReturned
    /\ Len(ret.parts) = 3
    /\ NumLines(ret.parts[2]) = 1
    /\ TextLen(ret.parts[2]) > call.max_chars
    /\ TextLen(ret.parts[1]) <= call.max_chars

\* C17: a chunk of more than one line has at most max_chars characters; the
\* 300 lines of 100 characters come back, under the default budget, as 3
\* chunks of at most 12000 characters that rebuild the input.
C17_MultiLineChunkWithinBudget ==
    ChunkReturned =>
        /\ \A k \in 1..Len(ret.parts) :
            NumLines(ret.parts[k]) > 1 => TextLen(ret.parts[k]) <= call.max_chars
        /\ (call.s = ScenarioText /\ call.max_chars = DefaultMaxChars) =>
            /\ Len(ret.parts) = 3
            /\ \A k \in 1..3 : TextLen(ret.parts[k]) <= DefaultMaxChars
            /\ JoinText(ret.parts) = call.s

\* The scenario's call has returned.
C17_Witness ==
    /\ ChunkReturned
    /\ call.s = ScenarioText
    /\ call.max_chars = DefaultMaxChars
    /\ NumLines(call.s) = 300
    /\ TextLen(call.s) = 30000

\* extract_changed_files has returned.
ExtractReturned == call.fn = "extract_changed_files" /\ ret.done

\* The first header line of the text whose <b> is path f.
FirstHeaderOf(diff_text, f) ==
    CHOOSE i \in 1..Len(diff_text) :
        /\ IsHeader(diff_text[i]) /\ GroupB(diff_text[i]) = f
        /\ \A j \in 1..(i - 1) :
            ~(IsHeader(diff_text[j]) /\ GroupB(diff_text[j]) = f)

\* C18: extract_changed_files returns the <b> paths of the header lines and
\* nothing else, each once, ordered by the first header that names them, and
\* the empty list for a text without header line.
C18_ChangedFilesFirstAppearance ==
    ExtractReturned =>
        LET D == call.diff_text
            heads == {i \in 1..Len(D) : IsHeader(D[i])}
        IN /\ Range(ret.files) = {GroupB(D[i]) : i \in heads}
           /\ \A k, l \in 1..Len(ret.files) :
                k < l => /\ ret.files[k] # ret.files[l]
                         /\ FirstHeaderOf(D, ret.files[k])
                                < FirstHeaderOf(D, ret.files[l])
           /\ heads = {} => ret.files = <<>>

\* Three headers, the first path named again by the third; the list is not
\* in alphabetical order.
C18_Witness ==
    /\ ExtractReturned
    /\ call.diff_text = <<Header(PathMinJs), Header(PathGo), Header(PathMinJs)>>
    /\ ret.files = <<PathMinJs, PathGo>>

\* filter_out_generated_diffs has returned from a text with a header line,
\* filtering enabled.
FilterScanned ==
    /\ call.fn = "filter_out_generated_diffs"
    /\ ret.done
    /\ ~ret.out.raised
    /\ call.cfg.skip_generated
    /\ \E i \in 1..Len(call.diff_text) : IsHeader(call.diff_text[i])

\* C19: with a header in the text and filtering enabled, every block is
\* either kept or skipped, never both: kept blocks and skipped entries add up
\* to the number of header lines, the kept list is the blocks not classified
\* as generated, in text order and unmodified, and the filtered text is their
\* concatenation.
C19_BlocksKeptOrSkipped ==
    FilterScanned =>
        LET D == call.diff_text
            n == Cardinality({i \in 1..Len(D) : IsHeader(D[i])})
            K == Sorted({k \in 1..n : ~ret.out.is_gen[k]})
        IN /\ Len(ret.out.is_gen) = n
           /\ Len(ret.out.kept) + Len(ret.out.skipped) = n
           /\ Len(ret.out.skipped) = Cardinality({k \in 1..n : ret.out.is_gen[k]})
           /\ ret.out.kept = [k \in 1..Len(K) |-> Blocks(D)[K[k]]]
           /\ ret.out.filtered = JoinText(ret.out.kept)

\* Lines before the first header, then a skipped block and a kept block.
C19_Witness ==
    /\ FilterScanned
    /\ ~IsHeader(call.diff_text[1])
    /\ Len(ret.out.kept) = 1
    /\ Len(ret.out.skipped) = 1
    /\ ret.out.is_gen = <<TRUE, FALSE>>

\* The target path of block k: the <b> of its header, as
\* extract_changed_files reports it.
TargetPath(diff_text, k) == GroupB(Blocks(diff_text)[k][1])

\* One of the rules holds for block k of the text.
RuleMatches(diff_text, cfg, k) ==
    \/ \E g \in 1..Len(cfg.generated_path_globs) :
        FnMatch(TargetPath(diff_text, k), cfg.generated_path_globs[g])
    \/ /\ cfg.generated_file_regex # <<>>
       /\ RegexSearch(cfg.generated_file_regex, TargetPath(diff_text, k))
    \/ \E m \in 1..Len(cfg.generated_header_markers) :
        /\ cfg.generated_header_markers[m] # <<>>
        /\ \E i \in 1..Min(Len(Blocks(diff_text)[k]), HeadLines) :
            Contains(Lower(Blocks(diff_text)[k][i]),
                     Lower(cfg.generated_header_markers[m]))

\* C20: a block is classified as generated exactly when a glob matches its
\* target path, or the regex matches it ignoring case, or a marker occurs,
\* ignoring case, in the first 120 lines of the block; for the blocks
\* foo/bar.min.js and foo/bar.go under the glob *.min.js the filtered text is
\* the bar.go block and the skipped list is foo/bar.min.js.
C20_GeneratedIffRuleMatches ==
    FilterScanned =>
        /\ \A k \in 1..Len(ret.out.is_gen) :
            ret.out.is_gen[k] <=> RuleMatches(call.diff_text, call.cfg, k)
        /\ (/\ call.diff_text = ScenarioDiff
            /\ call.cfg = Rules(<<GlobMinJs>>, <<>>, <<>>, TRUE))
            => /\ ret.out.filtered = <<Header(PathGo), LineAdded>>
               /\ ret.out.skipped = <<PathMinJs>>

\* A glob whose "[" is never closed.
MalformedGlob(g) ==
    /\ \E i \in 1..Len(g) : g[i] = "["
    /\ ~\E i \in 1..Len(g) : g[i] = "]"

\* The rule set without its malformed globs and without a regex that does
\* not compile.
WithoutMalformed(cfg) ==
    [cfg EXCEPT
        !.generated_path_globs = SelectSeq(@, LAMBDA g : ~MalformedGlob(g)),
        !.generated_file_regex = IF RegexCompile(@) = "ok" THEN @ ELSE <<>>]

\* The call to filter_out_generated_diffs is over, by a return or by an
\* exception.
FilterOver == call.fn = "filter_out_generated_diffs" /\ ret.done

\* C21: whatever malformed glob or regex the rule set holds, the filter does
\* not raise, and it classifies every block as the rule set without the
\* malformed rules does.
C21_MalformedRulesIgnored ==
    FilterOver =>
        /\ ~ret.out.raised
        /\ ret.out.is_gen =
             filter_out_generated_diffs(call.diff_text,
                                        WithoutMalformed(call.cfg)).is_gen

\* The rule set holds no rule at all.
EmptyRuleSet(cfg) ==
    /\ cfg.generated_path_globs = <<>>
    /\ cfg.generated_file_regex = <<>>
    /\ cfg.generated_header_markers = <<>>

\* C22: with skip_generated false, or with an empty rule set, the filter
\* returns its input unchanged, the text before the first header included,
\* and an empty skipped list.
C22_NoRulesReturnsInput ==
    (FilterOver /\ (~call.cfg.skip_generated \/ EmptyRuleSet(call.cfg))) =>
        /\ ~ret.out.raised
        /\ ret.out.filtered = call.diff_text
        /\ ret.out.skipped = <<>>

\* C23: a text without any header line is returned unchanged with an empty
\* skipped list, whatever the rules are, and the call does not raise.
C23_NoHeaderReturnsInput ==
    (FilterOver /\ HeaderLines(call.diff_text) = <<>>) =>
        /\ ~ret.out.raised
        /\ ret.out.filtered = call.diff_text
        /\ ret.out.skipped = <<>>

C23_Witness ==
    /\ FilterOver
    /\ HeaderLines(call.diff_text) = <<>>
    /\ Len(call.diff_text) = MaxDiffLines
    /\ call.cfg.skip_generated
    /\ call.cfg.generated_file_regex = RegexHugeRepeat
    /\ ret.out.filtered = call.diff_text

GeneratedTargets(diff_text, is_gen) ==
    LET idx == Sorted({k \in 1..Len(is_gen) : is_gen[k]})
    IN [k \in 1..Len(idx) |-> TargetPath(diff_text, idx[k])]

\* C25: the skipped list is the target paths of the generated blocks, one
\* entry per block in the order met, each exactly the <b> path that
\* extract_changed_files reports, also when its first directory is named b.
C25_SkippedAreTargetPaths ==
    FilterScanned =>
        /\ ret.out.skipped = GeneratedTargets(call.diff_text, ret.out.is_gen)
        /\ \A k \in 1..Len(ret.out.skipped) :
            \E i \in 1..Len(extract_changed_files(call.diff_text)) :
                extract_changed_files(call.diff_text)[i] = ret.out.skipped[k]

\* fetch_pr_diff_filtered has returned.
FetchReturned == call.fn = "fetch_pr_diff_filtered" /\ ret.done

\* C26: once the raw diff is fetched, fetch_pr_diff_filtered returns a pair,
\* never more than two items: the filter's text and skipped list, or, when
\* the filter raises, the raw diff unchanged and an empty list.
C26_FetchReturnsPair ==
    FetchReturned =>
        LET res == filter_out_generated_diffs(call.raw, call.cfg)
        IN /\ Len(ret.out) = 2
           /\ res.raised => ret.out = <<call.raw, <<>>>>
           /\ ~res.raised => ret.out = <<res.filtered, res.skipped>>

\* The filter raises on the scenario's bar.go block.
C26_Witness ==
    /\ FetchReturned
    /\ call.raw = ScenarioDiff
    /\ filter_out_generated_diffs(call.raw, call.cfg).raised
    /\ ret.out = <<ScenarioDiff, <<>>>>

\* C28: the filtered diff is a fixpoint of the filter: filtering it again
\* with the same rules returns the same text and an empty skipped list.
C28_FilteredIsFixpoint ==
    (FilterOver /\ ret.again.of = "output") =>
        /\ ~ret.again.out.raised
        /\ ret.again.out.filtered = ret.out.filtered
        /\ ret.again.out.skipped = <<>>

\* The first call dropped the lines before the first header and a generated
\* block; the second call scans what is left.
C28_Witness ==
    /\ FilterOver
    /\ ret.again.of = "output"
    /\ call.diff_text = PreambleDiff
    /\ ret.out.skipped # <<>>
    /\ ret.out.filtered = <<Header(PathGo), LineAdded>>
    /\ ret.again.out.scanned
    /\ ret.again.out.filtered = ret.out.filtered

\* The runs at which the chunks start in the input.
ChunkStarts(parts) == {ChunkEnd(parts, k - 1) + 1 : k \in 1..Len(parts)}

\* The runs at which the lines after the first start.
LaterLineStarts(t) == {e + 1 : e \in {i \in 1..(Len(t) - 1) : IsLineEnd(t, i)}}

\* The buffer of the greedy packing when it meets the line that starts at
\* run s: the input from the start of the chunk that holds the line before.
BufferBefore(t, parts, s) ==
    LET c == CHOOSE x \in ChunkStarts(parts) :
                /\ x < s
                /\ \A y \in ChunkStarts(parts) : y < s => y <= x
    IN SubSeq(t, c, s - 1)

\* C27: chunk_text is the greedy line packing: a chunk starts before a
\* line exactly when the buffer is not empty and buffer plus line exceed
\* max_chars; so a chunk plus the first line of the chunk after it is always
\* longer than max_chars.
C27_GreedyPacking ==
    ChunkReturned =>
        /\ JoinText(ret.parts) = call.s
        /\ call.s # <<>> => 1 \in ChunkStarts(ret.parts)
        /\ \A s \in LaterLineStarts(call.s) :
            s \in ChunkStarts(ret.parts) <=>
                TextLen(BufferBefore(call.s, ret.parts, s))
                  + TextLen(SubSeq(call.s, s, NextLineEnd(call.s, s)))
                  > call.max_chars
        /\ \A k \in 1..(Len(ret.parts) - 1) :
            TextLen(ret.parts[k])
              + TextLen(SubSeq(ret.parts[k + 1], 1, NextLineEnd(ret.parts[k + 1], 1)))
              > call.max_chars

\* A chunk of two lines that fills the budget exactly, then another chunk.
C27_Witness ==
    /\ ChunkReturned
    /\ Len(ret.parts) >= 2
    /\ NumLines(ret.parts[1]) = 2
    /\ TextLen(ret.parts[1]) = call.max_chars

\* on_review has stopped before the fan-out.
StoppedEarly == handler = "review" /\ pc \in {"error", "no_diff"}

\* C29: when the filtered diff is empty or only whitespace, or no backend is
\* selected, on_review stops with an error before the fan-out: no backend is
\* invoked, no report file is written and the index is unchanged.
C29_NoFanOutWithoutDiffOrBackend ==
    (/\ handler = "review" /\ pc # "idle"
     /\ \/ ticked = {}
        \/ \A i \in 1..Len(diff) : Range(diff[i]) \subseteq Whitespace) =>
        /\ StoppedEarly
        /\ shown = <<"error">>
        /\ \A b \in DOMAIN calls : calls[b] = 0 /\ taskState[b] = "pending"
        /\ workQueue = <<>> /\ submitted = 0
        /\ results = <<>> /\ errors = <<>> /\ synthCalls = <<>>
        /\ files = <<>>
        /\ index = <<>>

\* Backends are ticked but the fetched text holds blanks only.
C29_Witness ==
    /\ StoppedEarly
    /\ ticked = 1..NumBackends
    /\ diff = BlankDiff
    /\ shown = <<"error">>
    /\ files = <<>>

\* The fan-out has been entered and is not over.
FanOutRunning == pc \in {"submit", "as_completed", "seq"}

\* C30: when every backend call returns or raises, the fan-out ends in both
\* modes and for any number of backends, more than the pool's cap included:
\* every task reaches done or failed, and on_generate_summary then starts
\* the reducer call, exactly once.
C30_FanOutTerminates ==
    /\ FanOutRunning ~> (FanOutFinished /\ \A b \in Selected : Terminal(b))
    /\ (FanOutRunning /\ handler = "summary") ~> (Len(synthCalls) = 1)
    /\ [](Len(synthCalls) <= 1)

\* More backends than the pool has workers: all ended, the reducer called.
C30_Witness ==
    /\ handler = "summary" /\ parallel
    /\ Len(selected_models) = CapBackends
    /\ \A b \in Selected : Terminal(b)
    /\ Len(synthCalls) = 1
====
